---------------------------- MODULE Spec2Model ----------------------------
(* Model of the Game of Life engine of src/src/lib.rs (struct LifeGame)    *)
(* and of the terminal application that drives it, src/src/main.rs (struct *)
(* Setting, struct App).                                                   *)
(* A grid is a sequence of rows (index y + 1), a row a sequence of u8      *)
(* values (index x + 1): the code's cells[y][x] is cells[y + 1][x + 1].    *)
EXTENDS Integers, Sequences, FiniteSets

VARIABLES
  phase,   \* "none": no engine built; "ready": a LifeGame exists; "panicked": a call panicked
  panic,   \* why the call panicked: "unwrap_none", "index_out_of_bounds", "overflow"; else "-"
  width,   \* LifeGame.width
  height,  \* LifeGame.height
  cells,   \* LifeGame.cells
  op,      \* the last call: "-", "new", "from", "set_alives", "get_cells", "next"
  input,   \* the argument of from, while the grid is as from built it, else << >>
  points,  \* the argument of set_alives, while the grid is as set_alives left it, else << >>
  prev,    \* the local prev of next, while the grid is as next left it, else << >>
  result,  \* what next returned, "Some" or "None", while the grid is as next left it, else "-"
  view,    \* what the last call returned when it was get_cells, else << >>
  calls,   \* the next calls made on the engine, where the specification counts them
  setting, \* App.setting: the fields x, y, size and color of Setting
  pc,      \* where App::run is: "-" not called, "for", "draw", "poll", "returned"
  idx,     \* the place in inputs() of the pattern the for loop is at, 0 before the first
  event,   \* what the last poll and read gave, else "no_event"
  waited,  \* the whole seconds since last_tick was taken from the clock, at the last poll
  ret      \* what App::run returned, "Ok" or "Err", else "-"

\* the engine (LifeGame)
evars == <<phase, panic, width, height, cells, op, input, points, prev, result, view>>

\* the application (App) around it
avars == <<setting, pc, idx, event, waited, ret>>

vars == <<phase, panic, width, height, cells, op, input, points, prev, result, view,
          calls, setting, pc, idx, event, waited, ret>>

(* ------------------------------ bounds -------------------------------- *)

\* widest grid built by new, longest row of a rectangular seed
MaxWidth == 3
\* tallest grid built by new, most rows of a rectangular seed
MaxHeight == 3
\* most cells (width * height) of such a grid
MaxCells == 9
\* most rows of a jagged seed
MaxSeedRows == 3
\* longest row of a jagged seed
MaxRowLen == 3
\* longest list of points given to set_alives in one call
MaxPoints == 2
\* widest and tallest grid that is given such lists
MaxSetSide == 2
\* most cells of such a grid
MaxSetCells == 4
\* most next calls counted on one engine
MaxCalls == 6
\* most whole seconds that pass between two readings of the clock
MaxWait == 1

(* ----------------------------- constants ------------------------------ *)

LIVE == 1
DEAD == 0

(* ------------------------------ helpers ------------------------------- *)

\* cmp::min
min(a, b) == IF a <= b THEN a ELSE b

\* Iterator::min over the row lengths of a non-empty input
RECURSIVE min_len(_)
min_len(rows) ==
  IF Len(rows) = 1 THEN Len(rows[1])
  ELSE min(Len(rows[1]), min_len(Tail(rows)))

\* Iterator::take(n) on a row
take(row, n) == SubSeq(row, 1, min(n, Len(row)))

(* -------------------------- LifeGame::new ----------------------------- *)

new(w, h) == [width |-> w, height |-> h, cells |-> [y \in 1..h |-> [x \in 1..w |-> DEAD]]]

(* -------------------------- LifeGame::from ---------------------------- *)

\* from with the width of the first row instead of the shortest
from_first_row_width(rows) ==
  IF Len(rows) = 0
  THEN [panic |-> "unwrap_none", width |-> 0, height |-> 0, cells |-> << >>]
  ELSE LET w == Len(rows[1])
       IN [panic |-> "-", width |-> w, height |-> Len(rows),
           cells |-> [y \in 1..Len(rows) |-> take(rows[y], w)]]

\* from with unwrap_or(0): the empty input builds a 0 x 0 grid
from_empty_grid(rows) ==
  IF Len(rows) = 0
  THEN [panic |-> "-", width |-> 0, height |-> 0, cells |-> << >>]
  ELSE LET w == min_len(rows)
       IN [panic |-> "-", width |-> w, height |-> Len(rows),
           cells |-> [y \in 1..Len(rows) |-> take(rows[y], w)]]

\* from without take(width): the rows are copied whole
from_no_take(rows) ==
  IF Len(rows) = 0
  THEN [panic |-> "unwrap_none", width |-> 0, height |-> 0, cells |-> << >>]
  ELSE [panic |-> "-", width |-> min_len(rows), height |-> Len(rows),
        cells |-> [y \in 1..Len(rows) |-> rows[y]]]

\* min() of an empty iterator is None and unwrap() panics: no LifeGame is returned.
from(rows) ==
  IF Len(rows) = 0
  THEN [panic |-> "unwrap_none", width |-> 0, height |-> 0, cells |-> << >>]
  ELSE LET w == min_len(rows)
       IN [panic |-> "-", width |-> w, height |-> Len(rows),
           cells |-> [y \in 1..Len(rows) |-> take(rows[y], w)]]

(* ----------------------- LifeGame::set_alives ------------------------- *)

\* self.cells[y][x] is bounds-checked against the vectors' lengths
in_bounds(c, x, y) == y < Len(c) /\ x < Len(c[y + 1])

\* the loop body with += LIVE instead of = LIVE
set_alive_increment(c, p) == [c EXCEPT ![p[2] + 1][p[1] + 1] = @ + LIVE]

\* The loop body for one point, the grid being c.
set_alive(c, p) == [c EXCEPT ![p[2] + 1][p[1] + 1] = LIVE]

\* the loop left after its first point
set_alives_first_only(c, pts) ==
  IF Len(pts) = 0 THEN [panic |-> "-", cells |-> c]
  ELSE IF ~in_bounds(c, pts[1][1], pts[1][2])
       THEN [panic |-> "index_out_of_bounds", cells |-> c]
       ELSE [panic |-> "-", cells |-> set_alive(c, pts[1])]

\* the loop passing over the points out of bounds
RECURSIVE set_alives_skip(_, _)
set_alives_skip(c, pts) ==
  IF Len(pts) = 0 THEN [panic |-> "-", cells |-> c]
  ELSE IF ~in_bounds(c, pts[1][1], pts[1][2])
       THEN set_alives_skip(c, Tail(pts))
       ELSE set_alives_skip(set_alive(c, pts[1]), Tail(pts))

\* The loop: the points in order; the first point out of bounds panics and
\* the cells set before it stay set.
RECURSIVE set_alives(_, _)
set_alives(c, pts) ==
  IF Len(pts) = 0 THEN [panic |-> "-", cells |-> c]
  ELSE IF ~in_bounds(c, pts[1][1], pts[1][2])
       THEN [panic |-> "index_out_of_bounds", cells |-> c]
       ELSE set_alives(set_alive(c, pts[1]), Tail(pts))

(* ------------------------ LifeGame::get_cells ------------------------- *)

\* get_cells with c == DEAD
get_cells_inverted(c) == [y \in 1..Len(c) |-> [x \in 1..Len(c[y]) |-> c[y][x] = DEAD]]

get_cells(c) == [y \in 1..Len(c) |-> [x \in 1..Len(c[y]) |-> c[y][x] = LIVE]]

(* ------------------------- LifeGame::next ----------------------------- *)

\* neighbour_range with y + 1 and x + 1 for the clamped upper ends
neighbour_range_unclamped(x, y, w, h) ==
  LET ylo == IF y = 0 THEN 0 ELSE y - 1
      xlo == IF x = 0 THEN 0 ELSE x - 1
  IN {p \in (xlo..(x + 1)) \X (ylo..(y + 1)) : p # <<x, y>>}

\* The neighbours the code visits: ys x xs without (x, y), the ranges clamped
\* with the fields width and height.
neighbour_range(x, y, w, h) ==
  LET ylo == IF y = 0 THEN 0 ELSE y - 1
      yhi == min(y + 1, h - 1)
      xlo == IF x = 0 THEN 0 ELSE x - 1
      xhi == min(x + 1, w - 1)
  IN {p \in (xlo..xhi) \X (ylo..yhi) : p # <<x, y>>}

\* Why count_alives(x, y) panics, "-" when it does not: height - 1 and width - 1
\* are usize subtractions (overflow checks on), self.cells[y][x] is bounds-checked.
count_alives_panic(c, w, h, x, y) ==
  IF h = 0 \/ w = 0 THEN "overflow"
  ELSE IF \E p \in neighbour_range(x, y, w, h) : ~in_bounds(c, p[1], p[2])
       THEN "index_out_of_bounds"
       ELSE "-"

\* count_alives without the filter p != (x, y): the cell counts itself
count_alives_with_self(c, w, h, x, y) ==
  Cardinality({p \in neighbour_range(x, y, w, h) \cup {<<x, y>>} : c[p[2] + 1][p[1] + 1] = LIVE})

\* count_alives with != DEAD for == LIVE: every byte but 0 counts
count_alives_nonzero(c, w, h, x, y) ==
  Cardinality({p \in neighbour_range(x, y, w, h) : c[p[2] + 1][p[1] + 1] # DEAD})

\* count_alives on a torus: the ranges wrap at the edges instead of being clamped
count_alives_wrap(c, w, h, x, y) ==
  Cardinality({p \in {<<(x + d[1] + w) % w, (y + d[2] + h) % h>> : d \in (-1..1) \X (-1..1)}
                        \ {<<x, y>>} :
               c[p[2] + 1][p[1] + 1] = LIVE})

\* The sum of one 1 per visited neighbour whose value is LIVE (at most 8: no u8 overflow).
count_alives(c, w, h, x, y) ==
  Cardinality({p \in neighbour_range(x, y, w, h) : c[p[2] + 1][p[1] + 1] = LIVE})

\* to_next_cell without the arm (LIVE, 2)
to_next_cell_no_live_2(c, w, h, cell, x, y) ==
  LET n == count_alives(c, w, h, x, y)
  IN IF \/ (cell = DEAD /\ n = 3)
        \/ (cell = LIVE /\ n = 3)
     THEN LIVE ELSE DEAD

\* to_next_cell without the arm (LIVE, 3)
to_next_cell_no_live_3(c, w, h, cell, x, y) ==
  LET n == count_alives(c, w, h, x, y)
  IN IF \/ (cell = DEAD /\ n = 3)
        \/ (cell = LIVE /\ n = 2)
     THEN LIVE ELSE DEAD

\* The match: (DEAD, 3) | (LIVE, 2) | (LIVE, 3) => LIVE, _ => DEAD.
to_next_cell(c, w, h, cell, x, y) ==
  LET n == count_alives(c, w, h, x, y)
  IN IF \/ (cell = DEAD /\ n = 3)
        \/ (cell = LIVE /\ n = 2)
        \/ (cell = LIVE /\ n = 3)
     THEN LIVE ELSE DEAD

\* The cells (x, y) the two maps of to_next_generation_cells visit.
visited(c) == UNION {{<<x, y>> : x \in 0..Len(c[y + 1]) - 1} : y \in 0..Len(c) - 1}

\* Why to_next_generation_cells panics, "-" when no count_alives call does.
to_next_generation_panic(c, w, h) ==
  IF \A p \in visited(c) : count_alives_panic(c, w, h, p[1], p[2]) = "-" THEN "-"
  ELSE IF h = 0 \/ w = 0 THEN "overflow" ELSE "index_out_of_bounds"

to_next_generation_cells(c, w, h) ==
  [y \in 1..Len(c) |-> [x \in 1..Len(c[y]) |-> to_next_cell(c, w, h, c[y][x], x - 1, y - 1)]]

\* is_same_cells comparing the lengths alone
is_same_lengths(a, b) ==
  /\ Len(a) = Len(b)
  /\ \A y \in 1..min(Len(a), Len(b)) : Len(a[y]) = Len(b[y])

\* is_same_cells with any() for all() over the rows: one equal row is enough
is_same_any_row(a, b) ==
  /\ Len(a) = Len(b)
  /\ \/ Len(a) = 0
     \/ \E y \in 1..min(Len(a), Len(b)) :
          /\ Len(a[y]) = Len(b[y])
          /\ \A x \in 1..min(Len(a[y]), Len(b[y])) : a[y][x] = b[y][x]

\* is_same_cells that takes two empty grids for different
is_same_nonempty(a, b) ==
  /\ Len(a) > 0
  /\ Len(a) = Len(b)
  /\ \A y \in 1..min(Len(a), Len(b)) :
       /\ Len(a[y]) > 0
       /\ Len(a[y]) = Len(b[y])
       /\ \A x \in 1..min(Len(a[y]), Len(b[y])) : a[y][x] = b[y][x]

is_same_cells(a, b) ==
  /\ Len(a) = Len(b)
  /\ \A y \in 1..min(Len(a), Len(b)) :
       /\ Len(a[y]) = Len(b[y])
       /\ \A x \in 1..min(Len(a[y]), Len(b[y])) : a[y][x] = b[y][x]

(* ------------------------------ Setting ------------------------------- *)

\* Setting.tick_rate, in whole seconds: Duration::from_secs(1)
tick_rate == 1

\* Setting::new(), without the constant tick_rate
Setting_new == [x |-> 0, y |-> 0, size |-> 1, color |-> 0]

\* i32::clamp
clamp(v, lo, hi) == IF v < lo THEN lo ELSE IF v > hi THEN hi ELSE v

\* the cast "as u16" of an i32
as_u16(v) == v % 65536

\* add_size without the clamp
add_size_no_clamp(s, delta) == [s EXCEPT !.size = as_u16(s.size + delta)]

\* The sums are i32 sums of a u16 and an i16: they cannot overflow.
add_size(s, delta) == [s EXCEPT !.size = as_u16(clamp(s.size + delta, 1, 10))]

\* u8 arithmetic: color + 1 overflows only from 255
next_color(s) == [s EXCEPT !.color = (s.color + 1) % 16]

move_x(s, d) == [s EXCEPT !.x = as_u16(clamp(s.x + d, 0, 100))]

move_y(s, d) == [s EXCEPT !.y = as_u16(clamp(s.y + d, 0, 100))]

(* -------------------------------- App --------------------------------- *)

\* handle_key_event where 'n' is one more key without a meaning
handle_key_event_n_keeps(s, key) ==
  IF key = "q" THEN [result |-> "Quit", setting |-> s, tick |-> "-"]
  ELSE IF key = "+" THEN [result |-> "Keep", setting |-> add_size(s, 1), tick |-> "-"]
  ELSE IF key = "-" THEN [result |-> "Keep", setting |-> add_size(s, -1), tick |-> "-"]
  ELSE IF key = "c" THEN [result |-> "Keep", setting |-> next_color(s), tick |-> "-"]
  ELSE IF key \in {"Right", "l"} THEN [result |-> "Keep", setting |-> move_x(s, 1), tick |-> "-"]
  ELSE IF key \in {"Left", "h"} THEN [result |-> "Keep", setting |-> move_x(s, -1), tick |-> "-"]
  ELSE IF key \in {"Down", "j"} THEN [result |-> "Keep", setting |-> move_y(s, 1), tick |-> "-"]
  ELSE IF key \in {"Up", "k"} THEN [result |-> "Keep", setting |-> move_y(s, -1), tick |-> "-"]
  ELSE IF key = " " THEN [result |-> "Keep", setting |-> s, tick |-> "back"]
  ELSE [result |-> "Keep", setting |-> s, tick |-> "-"]

\* App::handle_key_event on the key code key, the settings being s: what it
\* returns, the settings it leaves, and what it does to last_tick: "now" sets
\* it to the clock, "back" moves it tick_rate back (the clock's Instant is
\* taken to be more than tick_rate after its origin: checked_sub gives Some).
handle_key_event(s, key) ==
  IF key = "q" THEN [result |-> "Quit", setting |-> s, tick |-> "-"]
  ELSE IF key = "n" THEN [result |-> "Next", setting |-> s, tick |-> "now"]
  ELSE IF key = "+" THEN [result |-> "Keep", setting |-> add_size(s, 1), tick |-> "-"]
  ELSE IF key = "-" THEN [result |-> "Keep", setting |-> add_size(s, -1), tick |-> "-"]
  ELSE IF key = "c" THEN [result |-> "Keep", setting |-> next_color(s), tick |-> "-"]
  ELSE IF key \in {"Right", "l"} THEN [result |-> "Keep", setting |-> move_x(s, 1), tick |-> "-"]
  ELSE IF key \in {"Left", "h"} THEN [result |-> "Keep", setting |-> move_x(s, -1), tick |-> "-"]
  ELSE IF key \in {"Down", "j"} THEN [result |-> "Keep", setting |-> move_y(s, 1), tick |-> "-"]
  ELSE IF key \in {"Up", "k"} THEN [result |-> "Keep", setting |-> move_y(s, -1), tick |-> "-"]
  ELSE IF key = " " THEN [result |-> "Keep", setting |-> s, tick |-> "back"]
  ELSE [result |-> "Keep", setting |-> s, tick |-> "-"]

\* last_tick.elapsed() in whole seconds after the key was handled, w whole
\* seconds after last_tick was taken from the clock
elapsed(w, tick) ==
  IF tick = "now" THEN 0 ELSE IF tick = "back" THEN w + tick_rate ELSE w

\* the pattern library: inputs()
inputs ==
  <<
  [name |-> "OCTAGON",
   rows |-> <<
        <<0, 0, 0, 1, 1, 0, 0, 0>>,
        <<0, 0, 1, 0, 0, 1, 0, 0>>,
        <<0, 1, 0, 0, 0, 0, 1, 0>>,
        <<1, 0, 0, 0, 0, 0, 0, 1>>,
        <<1, 0, 0, 0, 0, 0, 0, 1>>,
        <<0, 1, 0, 0, 0, 0, 1, 0>>,
        <<0, 0, 1, 0, 0, 1, 0, 0>>,
        <<0, 0, 0, 1, 1, 0, 0, 0>>>>],
  [name |-> "GLIDER",
   rows |-> <<
        <<0, 0, 1, 0, 0, 0, 0, 0, 0, 0, 0, 0>>,
        <<1, 0, 1, 0, 0, 0, 0, 0, 0, 0, 0, 0>>,
        <<0, 1, 1, 0, 0, 0, 0, 0, 0, 0, 0, 0>>,
        <<0, 0, 0, 0, 0, 0, 0, 0, 0, 0, 0, 0>>,
        <<0, 0, 0, 0, 0, 0, 0, 0, 0, 0, 0, 0>>,
        <<0, 0, 0, 0, 0, 0, 0, 0, 0, 0, 0, 0>>,
        <<0, 0, 0, 0, 0, 0, 0, 0, 0, 0, 0, 0>>,
        <<0, 0, 0, 0, 0, 0, 0, 0, 0, 0, 0, 0>>,
        <<0, 0, 0, 0, 0, 0, 0, 0, 0, 0, 0, 0>>,
        <<0, 0, 0, 0, 0, 0, 0, 0, 0, 0, 0, 0>>,
        <<0, 0, 0, 0, 0, 0, 0, 0, 0, 0, 0, 0>>,
        <<0, 0, 0, 0, 0, 0, 0, 0, 0, 0, 0, 0>>>>],
  [name |-> "TWIN-GLIDER",
   rows |-> <<
        <<0, 0, 1, 0, 0, 0, 0, 0, 0, 0>>,
        <<1, 0, 1, 0, 0, 0, 0, 0, 0, 0>>,
        <<0, 1, 1, 0, 0, 0, 1, 1, 0, 0>>,
        <<0, 0, 0, 0, 0, 1, 0, 1, 0, 0>>,
        <<0, 0, 0, 0, 0, 0, 0, 1, 0, 0>>,
        <<0, 0, 0, 0, 0, 0, 0, 0, 0, 0>>,
        <<0, 0, 0, 0, 0, 0, 0, 0, 0, 0>>,
        <<0, 0, 0, 0, 0, 0, 0, 0, 0, 0>>,
        <<0, 0, 0, 0, 0, 0, 0, 0, 0, 0>>,
        <<0, 0, 0, 0, 0, 0, 0, 0, 0, 0>>>>],
  [name |-> "GALAXY",
   rows |-> <<
        <<0, 0, 0, 0, 0, 0, 0, 0, 0, 0, 0, 0, 0, 0, 0>>,
        <<0, 0, 0, 0, 0, 0, 0, 0, 0, 0, 0, 0, 0, 0, 0>>,
        <<0, 0, 0, 0, 0, 0, 0, 0, 0, 0, 0, 0, 0, 0, 0>>,
        <<0, 0, 0, 1, 1, 1, 1, 1, 1, 0, 1, 1, 0, 0, 0>>,
        <<0, 0, 0, 1, 1, 1, 1, 1, 1, 0, 1, 1, 0, 0, 0>>,
        <<0, 0, 0, 0, 0, 0, 0, 0, 0, 0, 1, 1, 0, 0, 0>>,
        <<0, 0, 0, 1, 1, 0, 0, 0, 0, 0, 1, 1, 0, 0, 0>>,
        <<0, 0, 0, 1, 1, 0, 0, 0, 0, 0, 1, 1, 0, 0, 0>>,
        <<0, 0, 0, 1, 1, 0, 0, 0, 0, 0, 1, 1, 0, 0, 0>>,
        <<0, 0, 0, 1, 1, 0, 0, 0, 0, 0, 0, 0, 0, 0, 0>>,
        <<0, 0, 0, 1, 1, 0, 1, 1, 1, 1, 1, 1, 0, 0, 0>>,
        <<0, 0, 0, 1, 1, 0, 1, 1, 1, 1, 1, 1, 0, 0, 0>>,
        <<0, 0, 0, 0, 0, 0, 0, 0, 0, 0, 0, 0, 0, 0, 0>>,
        <<0, 0, 0, 0, 0, 0, 0, 0, 0, 0, 0, 0, 0, 0, 0>>,
        <<0, 0, 0, 0, 0, 0, 0, 0, 0, 0, 0, 0, 0, 0, 0>>>>],
  [name |-> "TREE",
   rows |-> <<
        <<0, 0, 0, 0, 0, 0, 0, 0, 0, 0, 0, 0, 0, 0, 0, 0, 0>>,
        <<0, 0, 0, 0, 0, 0, 0, 0, 1, 0, 0, 0, 0, 0, 0, 0, 0>>,
        <<0, 0, 0, 0, 0, 0, 0, 1, 0, 1, 0, 0, 0, 0, 0, 0, 0>>,
        <<0, 0, 0, 0, 0, 0, 0, 0, 1, 0, 0, 0, 0, 0, 0, 0, 0>>,
        <<0, 0, 0, 0, 0, 0, 0, 0, 1, 0, 0, 0, 0, 0, 0, 0, 0>>,
        <<0, 0, 0, 0, 0, 0, 0, 1, 0, 1, 0, 0, 0, 0, 0, 0, 0>>,
        <<0, 0, 0, 0, 0, 0, 0, 1, 0, 1, 0, 0, 0, 0, 0, 0, 0>>,
        <<0, 0, 0, 0, 0, 0, 1, 0, 0, 0, 1, 0, 0, 0, 0, 0, 0>>,
        <<0, 0, 0, 0, 0, 1, 0, 0, 0, 0, 0, 1, 0, 0, 0, 0, 0>>,
        <<0, 0, 0, 0, 0, 0, 0, 1, 0, 1, 0, 0, 0, 0, 0, 0, 0>>,
        <<0, 0, 0, 0, 0, 0, 1, 0, 0, 0, 1, 0, 0, 0, 0, 0, 0>>,
        <<0, 0, 0, 0, 0, 1, 0, 1, 0, 1, 0, 1, 0, 0, 0, 0, 0>>,
        <<0, 0, 0, 0, 1, 0, 0, 0, 0, 0, 0, 0, 1, 0, 0, 0, 0>>,
        <<0, 0, 0, 1, 0, 1, 0, 0, 0, 0, 0, 1, 0, 1, 0, 0, 0>>,
        <<0, 0, 0, 0, 0, 0, 1, 0, 0, 0, 1, 0, 0, 0, 0, 0, 0>>,
        <<0, 0, 0, 0, 0, 1, 0, 0, 1, 0, 0, 1, 0, 0, 0, 0, 0>>,
        <<0, 0, 0, 0, 1, 0, 0, 0, 0, 0, 0, 0, 1, 0, 0, 0, 0>>,
        <<0, 0, 0, 1, 0, 0, 1, 0, 0, 0, 1, 0, 0, 1, 0, 0, 0>>,
        <<0, 0, 1, 0, 0, 0, 0, 0, 0, 0, 0, 0, 0, 0, 1, 0, 0>>,
        <<0, 1, 0, 1, 0, 1, 0, 1, 0, 1, 0, 1, 0, 1, 0, 1, 0>>,
        <<0, 0, 0, 0, 0, 0, 1, 0, 0, 0, 1, 0, 0, 0, 0, 0, 0>>,
        <<0, 0, 0, 0, 0, 0, 1, 0, 0, 0, 1, 0, 0, 0, 0, 0, 0>>,
        <<0, 0, 0, 0, 0, 0, 1, 0, 1, 0, 1, 0, 0, 0, 0, 0, 0>>,
        <<0, 0, 0, 0, 0, 0, 1, 0, 1, 0, 1, 0, 0, 0, 0, 0, 0>>,
        <<0, 0, 0, 0, 0, 0, 0, 0, 0, 0, 0, 0, 0, 0, 0, 0, 0>>>>]
  >>

\* Iterator::cycle over the library: the place after place i (0: none yet)
cycle_next(i) == (i % Len(inputs)) + 1

(* ------------------------------ inputs -------------------------------- *)

\* rows of length n over the values vs
Rows(n, vs) == [1..n -> vs]

\* the sizes of the grids: sides and area bounded
Dims == {d \in (0..MaxWidth) \X (0..MaxHeight) : d[1] * d[2] <= MaxCells}

\* the sizes of the grids that are given lists of points
SetDims == {d \in (0..MaxSetSide) \X (0..MaxSetSide) : d[1] * d[2] <= MaxSetCells}

\* rectangular seeds: h rows of the same length w (h = 0: the empty seed)
RectSeeds(w, h, vs) == [1..h -> Rows(w, vs)]

\* the 0/1 rows of every length up to MaxRowLen
BinaryRows == UNION {Rows(n, {DEAD, LIVE}) : n \in 0..MaxRowLen}

\* jagged seeds: h rows out of rs, each of its own length
JaggedSeeds(h, rs) == [1..h -> rs]

\* the coordinates of a w x h grid and those one past its right and bottom edges
Coords(w, h) == (0..w) \X (0..h)

\* lists of n points
PointLists(n, w, h) == [1..n -> Coords(w, h)]

\* the bytes of a seed: DEAD, LIVE and one that is neither
ByteValues == {DEAD, LIVE, 2}

\* the seed of the period-2 oscillator: a vertical bar on a 3 x 3 grid
BlinkerSeed == <<<<0, 1, 0>>, <<0, 1, 0>>, <<0, 1, 0>>>>

\* the points of the 2 x 2 block in the middle of a 4 x 4 grid
BlockPoints == {<<1, 1>>, <<1, 2>>, <<2, 1>>, <<2, 2>>}

\* lists of up to as many points as the block has, each a point of the block
BlockLists == UNION {[1..n -> BlockPoints] : n \in 0..Cardinality(BlockPoints)}

\* one key code for each arm of handle_key_event that changes the settings
\* (the arrow keys share the arms of "l", "h", "j" and "k")
SettingKeys == {"+", "-", "c", "l", "h", "j", "k"}

\* the key codes that steer the run, and one without a meaning
RunKeys == {"q", "n", " ", "x"}

\* what one poll and read can give: nothing before the tick is over, a failure
\* of the terminal, an event that is no key event, a key event
Events == {"timeout", "io_error", "no_key"} \cup RunKeys

(* ------------------------------ actions ------------------------------- *)

Init ==
  /\ phase = "none"
  /\ panic = "-"
  /\ width = 0
  /\ height = 0
  /\ cells = << >>
  /\ op = "-"
  /\ input = << >>
  /\ points = << >>
  /\ prev = << >>
  /\ result = "-"
  /\ view = << >>
  /\ calls = 0
  /\ setting = Setting_new
  /\ pc = "-"
  /\ idx = 0
  /\ event = "no_event"
  /\ waited = 0
  /\ ret = "-"

\* LifeGame::new(w, h)
CallNew(w, h) ==
  /\ phase = "none"
  /\ phase' = "ready"
  /\ panic' = "-"
  /\ width' = new(w, h).width
  /\ height' = new(w, h).height
  /\ cells' = new(w, h).cells
  /\ op' = "new"
  /\ input' = << >>
  /\ points' = << >>
  /\ prev' = << >>
  /\ result' = "-"
  /\ view' = << >>

\* LifeGame::from(rows)
CallFrom(rows) ==
  /\ phase = "none"
  /\ LET r == from(rows)
     IN /\ phase' = IF r.panic = "-" THEN "ready" ELSE "panicked"
        /\ panic' = r.panic
        /\ width' = r.width
        /\ height' = r.height
        /\ cells' = r.cells
  /\ op' = "from"
  /\ input' = rows
  /\ points' = << >>
  /\ prev' = << >>
  /\ result' = "-"
  /\ view' = << >>

\* LifeGame::set_alives(pts)
CallSetAlives(pts) ==
  /\ phase = "ready"
  /\ LET r == set_alives(cells, pts)
     IN /\ phase' = IF r.panic = "-" THEN "ready" ELSE "panicked"
        /\ panic' = r.panic
        /\ cells' = r.cells
  /\ op' = "set_alives"
  /\ points' = pts
  /\ input' = << >>
  /\ prev' = << >>
  /\ result' = "-"
  /\ view' = << >>
  /\ UNCHANGED <<width, height>>

\* LifeGame::get_cells(): takes &self and returns a new vector
CallGetCells ==
  /\ phase = "ready"
  /\ view' = get_cells(cells)
  /\ op' = "get_cells"
  /\ UNCHANGED <<phase, panic, width, height, cells, input, points, prev, result>>

\* LifeGame::next()
CallNext ==
  /\ phase = "ready"
  /\ LET why == to_next_generation_panic(cells, width, height)
     IN IF why # "-"
        THEN /\ phase' = "panicked"
             /\ panic' = why
             /\ prev' = cells
             /\ result' = "-"
             /\ UNCHANGED cells
        ELSE LET next == to_next_generation_cells(cells, width, height)
                 same == is_same_cells(cells, next)
             IN /\ prev' = cells
                /\ cells' = next
                /\ result' = IF same THEN "None" ELSE "Some"
                /\ UNCHANGED <<phase, panic>>
  /\ op' = "next"
  /\ input' = << >>
  /\ points' = << >>
  /\ view' = << >>
  /\ UNCHANGED <<width, height>>

\* App::new(): the settings of Setting::new() and the engine LifeGame::new(0, 0)
InitApp ==
  /\ phase = "ready"
  /\ panic = "-"
  /\ width = new(0, 0).width
  /\ height = new(0, 0).height
  /\ cells = new(0, 0).cells
  /\ op = "new"
  /\ input = << >>
  /\ points = << >>
  /\ prev = << >>
  /\ result = "-"
  /\ view = << >>
  /\ calls = 0
  /\ setting = Setting_new
  /\ pc = "new"
  /\ idx = 0
  /\ event = "no_event"
  /\ waited = 0
  /\ ret = "-"

\* App::handle_key_event(key), called on the application by itself
HandleKeyEvent(key) ==
  /\ pc = "new"
  /\ setting' = handle_key_event(setting, key).setting
  /\ UNCHANGED <<evars, calls, pc, idx, event, waited, ret>>

\* App::run up to its for loop: last_tick is taken from the clock
StartRun ==
  /\ pc = "new"
  /\ pc' = "for"
  /\ UNCHANGED <<evars, calls, setting, idx, event, waited, ret>>

\* The head of the for loop: the cycle gives the next pattern, the engine is
\* replaced by one built from it (input_name is inputs[idx].name).
LoadPattern ==
  /\ pc = "for"
  /\ idx' = cycle_next(idx)
  /\ LET r == from(inputs[cycle_next(idx)].rows)
     IN /\ phase' = IF r.panic = "-" THEN "ready" ELSE "panicked"
        /\ panic' = r.panic
        /\ width' = r.width
        /\ height' = r.height
        /\ cells' = r.cells
        /\ pc' = IF r.panic = "-" THEN "draw" ELSE "panicked"
  /\ op' = "from"
  /\ input' = inputs[cycle_next(idx)].rows
  /\ points' = << >>
  /\ prev' = << >>
  /\ result' = "-"
  /\ view' = << >>
  /\ UNCHANGED <<calls, setting, event, waited, ret>>

\* terminal.draw(|frame| self.draw(frame))?: the frame is drawn from the view
\* of the cells, or the terminal fails and run returns the error.
Draw(ok) ==
  /\ pc = "draw"
  /\ IF ok
     THEN /\ CallGetCells
          /\ pc' = "poll"
          /\ UNCHANGED <<event, ret>>
     ELSE /\ pc' = "returned"
          /\ event' = "io_error"
          /\ ret' = "Err"
          /\ UNCHANGED evars
  /\ UNCHANGED <<calls, setting, idx, waited>>

\* The rest of one pass of the loop: poll and read give ev, the key is
\* handled, and w whole seconds after last_tick was taken from the clock the
\* elapsed time is compared with tick_rate; when the tick is over last_tick is
\* taken from the clock again and next is called. A poll that gives no event
\* has waited for the rest of the tick.
PollStep(ev, w) ==
  /\ pc = "poll"
  /\ ev = "timeout" => w >= tick_rate
  /\ event' = ev
  /\ waited' = w
  /\ UNCHANGED idx
  /\ IF ev = "io_error"
     THEN /\ pc' = "returned"
          /\ ret' = "Err"
          /\ UNCHANGED <<evars, calls, setting>>
     ELSE LET h == IF ev \in {"timeout", "no_key"}
                   THEN [result |-> "Keep", setting |-> setting, tick |-> "-"]
                   ELSE handle_key_event(setting, ev)
          IN /\ setting' = h.setting
             /\ IF h.result = "Quit"
                THEN /\ pc' = "returned"
                     /\ ret' = "Ok"
                     /\ UNCHANGED <<evars, calls>>
                ELSE IF h.result = "Next"
                THEN /\ pc' = "for"
                     /\ UNCHANGED <<evars, calls, ret>>
                ELSE IF elapsed(w, h.tick) < tick_rate
                THEN /\ pc' = "draw"
                     /\ UNCHANGED <<evars, calls, ret>>
                ELSE /\ CallNext
                     /\ calls' = calls
                     /\ pc' = IF phase' # "ready" THEN "panicked"
                              ELSE IF result' = "None" THEN "for" ELSE "draw"
                     /\ UNCHANGED ret

(* --------------------------- specifications --------------------------- *)

\* The engine's life: built by new or from a rectangular 0/1 seed, then any
\* sequence of set_alives (one point a call), get_cells and next.
Next ==
  \/ /\ phase = "none"
     /\ \E d \in Dims : CallNew(d[1], d[2])
     /\ UNCHANGED <<calls, avars>>
  \/ /\ phase = "none"
     /\ \E d \in Dims : \E rows \in RectSeeds(d[1], d[2], {DEAD, LIVE}) : CallFrom(rows)
     /\ UNCHANGED <<calls, avars>>
  \/ /\ phase = "ready"
     /\ \E p \in Coords(width, height) : CallSetAlives(<<p>>)
     /\ UNCHANGED <<calls, avars>>
  \/ CallGetCells /\ UNCHANGED <<calls, avars>>
  \/ CallNext /\ UNCHANGED <<calls, avars>>

Spec == Init /\ [][Next]_vars

\* The constructor from a seed on jagged 0/1 seeds, and the view of what it built.
NextSeed ==
  \/ /\ phase = "none"
     /\ \E h \in 0..MaxSeedRows : \E rows \in JaggedSeeds(h, BinaryRows) : CallFrom(rows)
     /\ UNCHANGED <<calls, avars>>
  \/ CallGetCells /\ UNCHANGED <<calls, avars>>

SpecSeed == Init /\ [][NextSeed]_vars

\* set_alives with lists of points, in range and out of range, on small grids
\* built empty or from a rectangular 0/1 seed.
NextSet ==
  \/ /\ phase = "none"
     /\ \E d \in SetDims : CallNew(d[1], d[2])
     /\ UNCHANGED <<calls, avars>>
  \/ /\ phase = "none"
     /\ \E d \in SetDims : \E rows \in RectSeeds(d[1], d[2], {DEAD, LIVE}) : CallFrom(rows)
     /\ UNCHANGED <<calls, avars>>
  \/ /\ phase = "ready"
     /\ \E n \in 0..MaxPoints : \E pts \in PointLists(n, width, height) : CallSetAlives(pts)
     /\ UNCHANGED <<calls, avars>>

SpecSet == Init /\ [][NextSet]_vars

\* The two scenarios: the engine built from the seed of the period-2
\* oscillator, and the empty 4 x 4 grid seeded once with points of the 2 x 2
\* block; then get_cells and next, the next calls counted.
NextScenario ==
  \/ /\ phase = "none"
     /\ CallFrom(BlinkerSeed)
     /\ UNCHANGED <<calls, avars>>
  \/ /\ phase = "none"
     /\ CallNew(4, 4)
     /\ UNCHANGED <<calls, avars>>
  \/ /\ phase = "ready" /\ op = "new"
     /\ \E pts \in BlockLists : CallSetAlives(pts)
     /\ UNCHANGED <<calls, avars>>
  \/ CallGetCells /\ UNCHANGED <<calls, avars>>
  \/ /\ calls < MaxCalls
     /\ CallNext
     /\ calls' = calls + 1
     /\ UNCHANGED avars

SpecScenario == Init /\ [][NextScenario]_vars

\* The engine built from a rectangular seed of any bytes, then get_cells and next.
NextBytes ==
  \/ /\ phase = "none"
     /\ \E d \in Dims : \E rows \in RectSeeds(d[1], d[2], ByteValues) : CallFrom(rows)
     /\ UNCHANGED <<calls, avars>>
  \/ CallGetCells /\ UNCHANGED <<calls, avars>>
  \/ CallNext /\ UNCHANGED <<calls, avars>>

SpecBytes == Init /\ [][NextBytes]_vars

\* The settings under the keys that change them, in any order.
NextSetting == \E key \in SettingKeys : HandleKeyEvent(key)

SpecSetting == InitApp /\ [][NextSetting]_vars

\* The application's run over the pattern library, the terminal giving any
\* event but a key for the settings, at any time.
NextApp ==
  \/ StartRun
  \/ LoadPattern
  \/ /\ pc = "draw"
     /\ \E ok \in BOOLEAN : Draw(ok)
  \/ /\ pc = "poll"
     /\ \E ev \in Events : \E w \in 0..MaxWait : PollStep(ev, w)

SpecApp == InitApp /\ [][NextApp]_vars

(* ------------------------- what the claims read ----------------------- *)

\* the value of cell (x, y) of the grid c
At(c, p) == c[p[2] + 1][p[1] + 1]

\* the cells of the engine's grid
Cells == (0..width - 1) \X (0..height - 1)

\* the cells among the 8 around p that lie in the grid
Adjacent(p) ==
  {q \in ((p[1] - 1)..(p[1] + 1)) \X ((p[2] - 1)..(p[2] + 1)) : q # p /\ q \in Cells}

LiveNeighbours(c, p) == Cardinality({q \in Adjacent(p) : At(c, q) = LIVE})

\* Conway's rule for cell p of the generation c
LiveNext(c, p) ==
  \/ At(c, p) = DEAD /\ LiveNeighbours(c, p) = 3
  \/ At(c, p) = LIVE /\ LiveNeighbours(c, p) \in {2, 3}

\* the generation after c
Successor(c) ==
  [y \in 1..height |-> [x \in 1..width |-> IF LiveNext(c, <<x - 1, y - 1>>) THEN LIVE ELSE DEAD]]

AllDead(c) == \A y \in 1..Len(c) : \A x \in 1..Len(c[y]) : c[y][x] = DEAD

\* the points of a list
Listed(pts) == {pts[i] : i \in 1..Len(pts)}

\* every point of the list lies in the grid
InRange(pts) == \A i \in 1..Len(pts) : pts[i][1] < width /\ pts[i][2] < height

(* ------------------------------- claims ------------------------------- *)

\* C1: after next, a cell is LIVE exactly when in the generation before it was
\* DEAD with 3 live neighbours or LIVE with 2 or 3, the neighbours being the
\* cells of the grid among the 8 around it, all counted in the old generation.
C1_TransitionRule ==
  (op = "next" /\ phase = "ready") =>
    \A p \in Cells : (At(cells, p) = LIVE) <=> LiveNext(prev, p)

\* next ran on a 3 x 3 grid where a cell was born, one died with more than 3
\* neighbours, one died with fewer than 2, and one with 2 stayed LIVE
C1_Witness ==
  /\ op = "next" /\ phase = "ready" /\ width = 3 /\ height = 3
  /\ \E p \in Cells : At(prev, p) = DEAD /\ At(cells, p) = LIVE
  /\ \E p \in Cells : At(prev, p) = LIVE /\ LiveNeighbours(prev, p) > 3 /\ At(cells, p) = DEAD
  /\ \E p \in Cells : At(prev, p) = LIVE /\ LiveNeighbours(prev, p) < 2 /\ At(cells, p) = DEAD
  /\ \E p \in Cells : At(prev, p) = LIVE /\ LiveNeighbours(prev, p) = 2 /\ At(cells, p) = LIVE

\* C2: next returns Some exactly when the generation it installs differs from
\* the one before in some cell, None exactly when every cell is the same, and
\* in both cases the grid then holds the successor generation.
C2_ChangedSignal ==
  (op = "next" /\ phase = "ready") =>
    /\ (result = "Some") <=> (\E p \in Cells : At(cells, p) # At(prev, p))
    /\ (result = "None") <=> (\A p \in Cells : At(cells, p) = At(prev, p))
    /\ cells = Successor(prev)

\* next returned Some on a 3 x 3 grid of which exactly one cell changed
C2_Witness ==
  /\ op = "next" /\ width = 3 /\ height = 3 /\ result = "Some"
  /\ Cardinality({p \in Cells : At(cells, p) # At(prev, p)}) = 1

\* C3: once next has returned None, and until the grid is set or rebuilt, every
\* later next returns None too and every call leaves the cells as they were.
C3_Idempotent ==
  [][(result = "None" /\ result' # "-") => (result' = "None" /\ cells' = cells)]_vars

\* next returned None on a grid that has LIVE cells and that a next before it
\* had already left as it is
C3_Witness ==
  /\ op = "next" /\ result = "None" /\ prev = cells
  /\ \E p \in Cells : At(cells, p) = LIVE
  /\ cells = Successor(Successor(cells))

\* C4: new(width, height) builds a grid of DEAD cells for every width and
\* height, zero included, and next on an all-DEAD grid does not fail, returns
\* None and leaves every cell DEAD.
C4_EmptyGrid ==
  /\ (op = "new") => (phase = "ready" /\ Len(cells) = height /\ AllDead(cells))
  /\ (op = "next" /\ AllDead(prev)) =>
       (phase = "ready" /\ result = "None" /\ AllDead(cells))

\* next ran on a grid with no cell, one of its sides being 0 and the other not
C4_Witness ==
  /\ op = "next" /\ result = "None"
  /\ width * height = 0 /\ width + height > 0

\* C5: from on a non-empty seed builds a grid as high as the seed has rows and as
\* wide as its shortest row, each row being the first width cells of the seed's.
C5_FromSeed ==
  (op = "from" /\ Len(input) > 0) =>
    /\ phase = "ready"
    /\ height = Len(input)
    /\ \A y \in 1..Len(input) : width <= Len(input[y])
    /\ \E y \in 1..Len(input) : width = Len(input[y])
    /\ Len(cells) = height
    /\ \A y \in 1..height :
         /\ Len(cells[y]) = width
         /\ \A x \in 1..width : cells[y][x] = input[y][x]

\* from built the grid of the seed [[1,1,1],[1,1]]
C5_Witness ==
  /\ op = "from" /\ input = <<<<1, 1, 1>>, <<1, 1>>>>
  /\ width = 2 /\ height = 2 /\ cells = <<<<1, 1>>, <<1, 1>>>>

\* C6: from on a seed of zero rows fails at once and builds no grid.
C6_EmptySeed ==
  (op = "from" /\ Len(input) = 0) =>
    (phase = "panicked" /\ panic = "unwrap_none" /\ cells = << >>)

\* from was called with the empty seed
C6_Witness == op = "from" /\ input = << >> /\ phase # "none"

\* the grid has height rows of width cells, each DEAD or LIVE
ShapeOK ==
  phase = "ready" =>
    /\ Len(cells) = height
    /\ \A y \in 1..Len(cells) :
         /\ Len(cells[y]) = width
         /\ \A x \in 1..Len(cells[y]) : cells[y][x] \in {DEAD, LIVE}

\* C7: whatever the sequence of set_alives (points in range) and next calls on
\* a grid built by new or from, the grid has height rows of width cells, each
\* DEAD or LIVE, and width and height stay what the construction made them.
C7_Shape ==
  /\ []ShapeOK
  /\ [][phase = "ready" => (width' = width /\ height' = height)]_vars

\* next changed a grid that is wider than high and has LIVE cells
C7_Witness ==
  /\ op = "next" /\ phase = "ready" /\ result = "Some"
  /\ width = 3 /\ height = 2
  /\ \E p \in Cells : At(cells, p) = LIVE

\* C8: the view of a grid just built from a non-empty 0/1 seed has height rows
\* of width entries, and entry (x, y) is true exactly when seed[y][x] is 1.
C8_RoundTrip ==
  (op = "get_cells" /\ Len(input) > 0) =>
    /\ Len(view) = height
    /\ Len(view) = Len(input)
    /\ \A y \in 1..Len(view) :
         /\ Len(view[y]) = width
         /\ \A x \in 1..Len(view[y]) : view[y][x] <=> (input[y][x] = 1)

\* the view of the grid built from the jagged seed [[1,0,1],[0,1]]
C8_Witness ==
  /\ op = "get_cells" /\ input = <<<<1, 0, 1>>, <<0, 1>>>>
  /\ view = <<<<TRUE, FALSE>>, <<FALSE, TRUE>>>>

\* the view is the grid: height rows of width entries, true where the cell is LIVE
ViewOK ==
  op = "get_cells" =>
    /\ Len(view) = height
    /\ \A y \in 1..Len(view) : Len(view[y]) = width
    /\ \A p \in Cells : At(view, p) <=> (At(cells, p) = LIVE)

\* C9: get_cells leaves width, height and the cells as they are, and what it
\* returns is the generation at the time of the call.
C9_View ==
  /\ []ViewOK
  /\ [][op' = "get_cells" => (cells' = cells /\ width' = width /\ height' = height)]_vars

\* the view of a generation that next has just installed, with LIVE and DEAD cells
C9_Witness ==
  /\ op = "get_cells" /\ result = "Some"
  /\ \E p \in Cells : At(view, p)
  /\ \E p \in Cells : ~At(view, p)

\* C10: set_alives with every point in range returns, leaves width and height,
\* makes the listed cells LIVE and leaves the other cells as they were.
C10_SetAlives ==
  [][(op' = "set_alives" /\ InRange(points')) =>
       /\ phase' = "ready"
       /\ width' = width /\ height' = height
       /\ Len(cells') = height
       /\ \A y \in 1..height : Len(cells'[y]) = width
       /\ \A p \in Cells :
            At(cells', p) = IF p \in Listed(points') THEN LIVE ELSE At(cells, p)]_vars

\* set_alives was given the same point twice on a grid that has another LIVE
\* cell and a DEAD cell
C10_Witness ==
  /\ op = "set_alives" /\ phase = "ready"
  /\ Len(points) = 2 /\ points[1] = points[2]
  /\ \E p \in Cells : At(cells, p) = LIVE /\ p \notin Listed(points)
  /\ \E p \in Cells : At(cells, p) = DEAD

\* the place in the list of its first point outside the grid
FirstOut(pts) ==
  CHOOSE i \in 1..Len(pts) :
    /\ ~(pts[i][1] < width /\ pts[i][2] < height)
    /\ \A j \in 1..(i - 1) : pts[j][1] < width /\ pts[j][2] < height

\* C11: set_alives with a point whose x is not below width or whose y is not
\* below height ends in an index-out-of-bounds panic at the first such point:
\* the grid keeps its shape, the points listed before it are LIVE and every
\* other cell is as it was, so no coordinate was wrapped into the grid, the
\* point was not passed over and no cell outside the grid was set.
C11_OutOfRange ==
  [][(op' = "set_alives" /\ ~InRange(points')) =>
       /\ phase' = "panicked"
       /\ panic' = "index_out_of_bounds"
       /\ width' = width /\ height' = height
       /\ Len(cells') = height
       /\ \A y \in 1..height : Len(cells'[y]) = width
       /\ \A p \in Cells :
            At(cells', p) =
              IF \E j \in 1..(FirstOut(points') - 1) : points'[j] = p
              THEN LIVE ELSE At(cells, p)]_vars

\* set_alives panicked at its second point, one past the right edge of a grid
\* two cells wide, after it had set its first: the cell the point would wrap
\* to is DEAD
C11_Witness ==
  /\ op = "set_alives" /\ phase = "panicked" /\ panic = "index_out_of_bounds"
  /\ width = 2 /\ height = 2
  /\ Len(points) = 2
  /\ points[1] \in Cells /\ At(cells, points[1]) = LIVE
  /\ points[2][1] = width /\ points[2][2] < height
  /\ At(cells, <<0, points[2][2]>>) = DEAD

\* the cells on an edge of the grid, and those in a corner
EdgeCells == {p \in Cells : p[1] \in {0, width - 1} \/ p[2] \in {0, height - 1}}

Corners == {p \in Cells : p[1] \in {0, width - 1} /\ p[2] \in {0, height - 1}}

\* C12: for a cell on an edge or in a corner next counts the LIVE cells among
\* the cells of the grid around it and no cell of the opposite edge, and a
\* LIVE corner cell with exactly 2 LIVE cells around it is LIVE after next.
C12_EdgeClamp ==
  (op = "next" /\ phase = "ready") =>
    /\ \A p \in EdgeCells :
         count_alives(prev, width, height, p[1], p[2]) = LiveNeighbours(prev, p)
    /\ \A p \in Corners :
         (At(prev, p) = LIVE /\ LiveNeighbours(prev, p) = 2) => At(cells, p) = LIVE

\* next on a 3 x 3 grid kept the LIVE corner (0, 0) that had 2 LIVE cells
\* around it while the corners (2, 0) and (0, 2) of the opposite edges were LIVE
C12_Witness ==
  /\ op = "next" /\ phase = "ready" /\ width = 3 /\ height = 3
  /\ At(prev, <<0, 0>>) = LIVE /\ LiveNeighbours(prev, <<0, 0>>) = 2
  /\ At(prev, <<2, 0>>) = LIVE /\ At(prev, <<0, 2>>) = LIVE
  /\ At(cells, <<0, 0>>) = LIVE

\* the horizontal bar the vertical bar of BlinkerSeed turns into
BlinkerTurned == <<<<0, 0, 0>>, <<1, 1, 1>>, <<0, 0, 0>>>>

\* C13: the engine built from the seed [[0,1,0],[0,1,0],[0,1,0]] holds the
\* horizontal bar [[0,0,0],[1,1,1],[0,0,0]] after an odd number of next calls
\* and the seed's vertical bar after an even number, and every one of these
\* next calls returns Some.
C13_Blinker ==
  (op = "from" \/ width = 3) =>
    /\ phase = "ready"
    /\ cells = IF calls % 2 = 1 THEN BlinkerTurned ELSE BlinkerSeed
    /\ calls > 0 => result = "Some"

\* the fourth next on the oscillator returned Some and left the vertical bar
C13_Witness ==
  /\ op = "next" /\ calls = 4 /\ result = "Some"
  /\ prev = BlinkerTurned /\ cells = BlinkerSeed

\* the list of the block's points as the scenario gives it
BlockList == <<<<1, 1>>, <<1, 2>>, <<2, 1>>, <<2, 2>>>>

\* the LIVE cells of the grid c
LiveCells(c) == {p \in Cells : At(c, p) = LIVE}

\* C14: set_alives with (1,1),(1,2),(2,1),(2,2) on the empty 4 x 4 grid makes
\* exactly these four cells LIVE, and the first next on that grid returns
\* None and leaves exactly these four cells LIVE.
C14_Block ==
  /\ [](op = "set_alives" /\ points = BlockList =>
         phase = "ready" /\ width = 4 /\ height = 4 /\ LiveCells(cells) = Listed(BlockList))
  /\ [][(op = "set_alives" /\ points = BlockList /\ op' = "next") =>
         /\ phase' = "ready"
         /\ result' = "None"
         /\ cells' = cells
         /\ LiveCells(cells') = Listed(BlockList)]_vars

\* the first next on the 4 x 4 grid with the block returned None and left the block
C14_Witness ==
  /\ op = "next" /\ calls = 1 /\ width = 4 /\ height = 4
  /\ result = "None"
  /\ LiveCells(prev) = BlockPoints
  /\ LiveCells(cells) = BlockPoints

\* C15: next on a grid of height rows of width cells, whatever width and
\* height (one cell wide, one cell high, without cells), returns Some or None
\* and does not panic: whenever a cell is visited width and height are at
\* least 1, so height - 1 and width - 1 do not underflow, and every cell
\* count_alives reads lies within the grid.
C15_NoFailure ==
  /\ op = "next" => (phase = "ready" /\ result \in {"Some", "None"})
  /\ (phase = "ready" /\ ShapeOK) =>
       \A p \in visited(cells) :
         /\ width >= 1 /\ height >= 1
         /\ \A q \in neighbour_range(p[1], p[2], width, height) :
              /\ 0 <= q[1] /\ q[1] < width
              /\ 0 <= q[2] /\ q[2] < height
              /\ in_bounds(cells, q[1], q[2])

\* next changed a grid one cell wide and three cells high
C15_Witness ==
  /\ op = "next" /\ phase = "ready" /\ result = "Some"
  /\ width = 1 /\ height = 3

\* C17: from stores the bytes of the seed as they are; get_cells shows a
\* cell as live exactly when its byte is 1; next counts as live neighbours
\* the cells whose byte is 1 and no other, and after it every cell is 0 or 1,
\* a cell whose byte was neither 0 nor 1 being DEAD.
C17_Bytes ==
  /\ (op = "from" /\ phase = "ready") =>
       \A p \in Cells : At(cells, p) = At(input, p)
  /\ op = "get_cells" =>
       \A p \in Cells : At(view, p) <=> (At(cells, p) = 1)
  /\ (op = "next" /\ phase = "ready") =>
       \A p \in Cells :
         /\ At(cells, p) \in {0, 1}
         /\ count_alives(prev, width, height, p[1], p[2]) = LiveNeighbours(prev, p)
         /\ At(cells, p) = IF LiveNext(prev, p) THEN LIVE ELSE DEAD
         /\ At(prev, p) \notin {0, 1} => At(cells, p) = DEAD

\* the first next on a 3 x 3 grid built from a seed with other bytes: a DEAD
\* cell with 2 LIVE cells and one other byte around it stayed DEAD, and a cell
\* with another byte and 3 LIVE cells around it became DEAD
C17_Witness ==
  /\ op = "next" /\ phase = "ready" /\ width = 3 /\ height = 3
  /\ \E q \in Cells :
       /\ At(prev, q) = DEAD /\ LiveNeighbours(prev, q) = 2
       /\ Cardinality({r \in Adjacent(q) : At(prev, r) \notin {0, 1}}) = 1
       /\ At(cells, q) = DEAD
  /\ \E p \in Cells :
       /\ At(prev, p) \notin {0, 1} /\ LiveNeighbours(prev, p) = 3
       /\ At(cells, p) = DEAD

\* the settings are in their ranges, and the sums the next key can make of
\* them fit their types: color + 1 a u8, the clamped sums a u16
SettingOK ==
  /\ setting.size \in 1..10
  /\ setting.x \in 0..100
  /\ setting.y \in 0..100
  /\ setting.color \in 0..15
  /\ setting.color + 1 <= 255
  /\ \A d \in {-1, 1} :
       /\ clamp(setting.size + d, 1, 10) \in 0..65535
       /\ clamp(setting.x + d, 0, 100) \in 0..65535
       /\ clamp(setting.y + d, 0, 100) \in 0..65535

\* C18: from Setting::new(), after any sequence of the keys that change the
\* settings, size is in 1..10, x and y are in 0..100 and color is in 0..15,
\* no sum leaves its integer type, and next_color takes 15 to 0.
C18_SettingRange ==
  /\ []SettingOK
  /\ [][(setting.color = 15 /\ setting'.color # 15) => setting'.color = 0]_vars

\* the keys have brought size, x, y and color each to the upper end of its range
C18_Witness ==
  /\ pc = "new"
  /\ setting = [x |-> 100, y |-> 100, size |-> 10, color |-> 15]

\* the step is the head of the for loop
Loaded == pc = "for" /\ pc' # "for"

\* the step is a pass of the loop from its poll on
Polled == pc = "poll" /\ pc' # "poll"

\* the step calls next on the engine (before a poll the last call is draw's)
Advanced == op # "next" /\ op' = "next"

\* The for loop replaces the engine by a fresh one built from the pattern
\* after the last one in the library, the first after the last.
FreshEngine ==
  /\ Loaded =>
       /\ idx' = IF idx = Len(inputs) THEN 1 ELSE idx + 1
       /\ op' = "from" /\ phase' = "ready"
       /\ input' = inputs[idx'].rows
       /\ cells' = inputs[idx'].rows
       /\ prev' = << >> /\ result' = "-"
       /\ pc' = "draw"
  /\ (pc = "for" /\ vars' # vars) => Loaded
  /\ (idx' # idx \/ (op # "from" /\ op' = "from")) => Loaded

\* A pass of the loop calls next at most once, and nothing else changes the cells.
OneGeneration ==
  /\ Advanced => (Polled /\ phase' = "ready" /\ prev' = cells /\ cells' = Successor(cells))
  /\ cells' # cells => (Advanced \/ Loaded)

\* next is called only when a whole tick has passed since last_tick was taken
\* from the clock.
TickElapsed == Advanced => waited' >= tick_rate

\* next is called only when a whole tick has passed since last_tick was taken
\* from the clock, or when the key of this pass was the space key.
TickElapsedOrForced == Advanced => (waited' >= tick_rate \/ event' = " ")

\* The loop is left for the next pattern exactly when next returned None or
\* the key was 'n', and next is not called again on an engine that returned None.
MoveOn ==
  /\ Polled =>
       ((pc' = "for") <=> ((Advanced /\ result' = "None") \/ event' = "n"))
  /\ (op = "next" /\ result = "None" /\ vars' # vars) => Loaded

\* run returns exactly on the key 'q' (Ok) and on a failure of the terminal (Err).
Ends ==
  /\ Polled => ((pc' = "returned") <=> (event' \in {"q", "io_error"}))
  /\ (pc # "returned" /\ pc' = "returned") =>
       \/ Polled /\ event' = "q" /\ ret' = "Ok"
       \/ event' = "io_error" /\ ret' = "Err"
  /\ pc' # "panicked"
  /\ pc = "returned" => vars' = vars

\* C16 as claimed: the loop builds a fresh engine from the current pattern,
\* calls next at most once per elapsed tick, moves to the next pattern of the
\* library (the first after the last) as soon as next returns None or the key
\* is 'n', never calls next again on an engine that returned None, and ends
\* only on 'q' or a failure of the terminal.
C16_DriverLoopAsClaimed ==
  [][FreshEngine /\ OneGeneration /\ TickElapsed /\ MoveOn /\ Ends]_vars

\* C16: the loop builds a fresh engine from the current pattern, calls next at
\* most once per pass, and only when a whole tick has passed since last_tick
\* or the space key has just moved last_tick one tick back; it moves to the
\* next pattern of the library (the first after the last) as soon as next
\* returns None or the key is 'n', never calls next again on an engine that
\* returned None, and ends only on 'q' or a failure of the terminal.
C16_DriverLoop ==
  [][FreshEngine /\ OneGeneration /\ TickElapsedOrForced /\ MoveOn /\ Ends]_vars

\* the first pattern was loaded again after the last one's engine returned
\* None to a next that the space key forced before the tick was over
C16_Witness ==
  /\ pc = "draw" /\ op = "from" /\ idx = 1
  /\ event = " " /\ waited = 0
  /\ cells = inputs[1].rows

=============================================================================
